---- MODULE Spec2Model ----
(***************************************************************************)
(* A model of the bourne JSON library: the recursive-descent parser of     *)
(* src/src/parse.rs (Value::from_str and the Parser it drives) as a state  *)
(* machine over the parser's cursor, and the Value accessors of            *)
(* src/src/lib.rs.                                                         *)
(*                                                                         *)
(* Spec runs Value::from_str on every input, SpecValue the accessors on a  *)
(* Value, SpecUnescape unescape_string on escaped strings.                 *)
(*                                                                         *)
(* The input is a sequence of bytes (numbers 0..255).  The code's indices  *)
(* are 0-based; the byte at code index i is source[i + 1].                 *)
(***************************************************************************)
EXTENDS Integers, Sequences, FiniteSets, TLC

VARIABLES
    source,      \* Parser.source, as bytes
    index,       \* Parser.index
    pc,          \* which function of the parser runs next
    stack,       \* the parse_array / parse_object calls in progress, innermost last
    ret,         \* the value the last finished sub-parser returned
    result,      \* what Value::from_str returned
    state,       \* parse_number: state
    is_integer,  \* parse_number: is_integer
    start,       \* parse_number / parse_string: start
    end,         \* parse_number: end
    value,       \* the Value the accessors work on
    panicked,    \* an accessor panicked
    op           \* the accessor call made last

parserVars == <<source, index, pc, stack, ret, result, state, is_integer, start, end>>
valueVars == <<value, panicked, op>>
vars == <<source, index, pc, stack, ret, result, state, is_integer, start, end,
          value, panicked, op>>

-----------------------------------------------------------------------------
(* Bytes the parser tests for.                                             *)

Tab == 9
LF == 10
FormFeed == 12
CR == 13
Space == 32
Quote == 34
Plus == 43
Comma == 44
Minus == 45
Dot == 46
Zero == 48
One == 49
Nine == 57
Colon == 58
UpperE == 69
LBracket == 91
Backslash == 92
RBracket == 93
LowerA == 97
LowerE == 101
LowerF == 102
LowerN == 110
LowerT == 116
LBrace == 123
RBrace == 125

NullText == <<110, 117, 108, 108>>
TrueText == <<116, 114, 117, 101>>
FalseText == <<102, 97, 108, 115, 101>>

IsDigit(b) == b >= Zero /\ b <= Nine

IsAsciiWhitespace(b) == b \in {Space, Tab, LF, FormFeed, CR}

\* &self.source[a..b]
Slice(src, a, b) == SubSeq(src, a + 1, b)

-----------------------------------------------------------------------------
(* Values.                                                                 *)

Null == [t |-> "Null"]
Boolean(b) == [t |-> "Boolean", b |-> b]
\* Number::Int: the i64 as a sign and its decimal digits without leading zeros
NumberInt(neg, mag) == [t |-> "Int", neg |-> neg, mag |-> mag]
\* Number::Float: the f64 nearest to (-1)^neg * mant * 10^exp, mant without
\* leading or trailing zeros (empty for zero)
NumberFloat(neg, mant, exp) == [t |-> "Float", neg |-> neg, mant |-> mant, exp |-> exp]
\* Value::String: the characters (Unicode scalar values)
String(s) == [t |-> "String", s |-> s]
Array(a) == [t |-> "Array", a |-> a]
\* Value::Object: the map as a function from keys to values
Object(o) == [t |-> "Object", o |-> o]

EmptyMap == <<>>

\* ValueMap::insert
MapInsert(m, k, v) == [x \in (DOMAIN m) \cup {k} |-> IF x = k THEN v ELSE m[x]]

-----------------------------------------------------------------------------
(* Results.                                                                *)

Pending == [st |-> "pending"]
Ok(v) == [st |-> "ok", value |-> v]
Err(kind) == [st |-> "err", err |-> kind]
ErrAt(kind, i) == [st |-> "err", err |-> kind, at |-> i]

-----------------------------------------------------------------------------
(* str::parse::<i64> and str::parse::<f64> of the captured literal.        *)

RECURSIVE StripLeadingZeros(_)
StripLeadingZeros(d) ==
    IF Len(d) > 1 /\ d[1] = 0 THEN StripLeadingZeros(Tail(d)) ELSE d

RECURSIVE StripTrailingZeros(_)
StripTrailingZeros(d) ==
    IF Len(d) > 0 /\ d[Len(d)] = 0
    THEN StripTrailingZeros(SubSeq(d, 1, Len(d) - 1))
    ELSE d

\* a <= b for two digit sequences without leading zeros
DigitsLessEq(a, b) ==
    \/ Len(a) < Len(b)
    \/ /\ Len(a) = Len(b)
       /\ \A i \in 1..Len(a) : (\A j \in 1..(i - 1) : a[j] = b[j]) => a[i] <= b[i]

\* i64::MAX = 9223372036854775807 and the magnitude of i64::MIN
I64MaxDigits == <<9, 2, 2, 3, 3, 7, 2, 0, 3, 6, 8, 5, 4, 7, 7, 5, 8, 0, 7>>
I64MinDigits == <<9, 2, 2, 3, 3, 7, 2, 0, 3, 6, 8, 5, 4, 7, 7, 5, 8, 0, 8>>

DigitValues(bytes) == [i \in 1..Len(bytes) |-> bytes[i] - Zero]

\* ParseI64 with the value clamped to the i64 range instead of refused
ParseI64Saturating(number) ==
    LET neg == number[1] = Minus
        body == IF number[1] \in {Plus, Minus} THEN Tail(number) ELSE number
        mag == StripLeadingZeros(DigitValues(body))
        limit == IF neg THEN I64MinDigits ELSE I64MaxDigits
    IN  Ok(NumberInt(neg /\ mag # <<0>>, IF DigitsLessEq(mag, limit) THEN mag ELSE limit))

\* number.parse::<i64>(): an optional sign, then digits only; a value outside
\* the i64 range is an error
ParseI64(number) ==
    LET signed == Len(number) > 0 /\ number[1] \in {Plus, Minus}
        neg == signed /\ number[1] = Minus
        body == IF signed THEN Tail(number) ELSE number
        mag == StripLeadingZeros(DigitValues(body))
    IN  IF Len(body) = 0 \/ \E i \in 1..Len(body) : ~IsDigit(body[i])
        THEN Err("ParseIntError")
        ELSE IF DigitsLessEq(mag, IF neg THEN I64MinDigits ELSE I64MaxDigits)
        THEN Ok(NumberInt(neg /\ mag # <<0>>, mag))
        ELSE Err("ParseIntError")

\* the first position of s holding a member of S, or 0
FirstIndex(s, S) ==
    IF \E i \in 1..Len(s) : s[i] \in S
    THEN CHOOSE i \in 1..Len(s) : s[i] \in S /\ \A j \in 1..(i - 1) : s[j] \notin S
    ELSE 0

RECURSIVE DigitsToNat(_)
DigitsToNat(d) ==
    IF Len(d) = 0 THEN 0 ELSE 10 * DigitsToNat(SubSeq(d, 1, Len(d) - 1)) + d[Len(d)]

\* number.parse::<f64>(): sign, integer digits, fraction digits and exponent are
\* read from the literal; the value is kept as a normalised decimal, which names
\* the f64 exactly for literals of at most 15 significant digits within the
\* exponent range of f64 (beyond it the code yields infinity or zero)
ParseF64(number) ==
    LET signed == Len(number) > 0 /\ number[1] \in {Plus, Minus}
        neg == signed /\ number[1] = Minus
        body == IF signed THEN Tail(number) ELSE number
        ePos == FirstIndex(body, {LowerE, UpperE})
        mantissa == IF ePos = 0 THEN body ELSE SubSeq(body, 1, ePos - 1)
        expPart == IF ePos = 0 THEN <<>> ELSE SubSeq(body, ePos + 1, Len(body))
        expSigned == Len(expPart) > 0 /\ expPart[1] \in {Plus, Minus}
        expNeg == expSigned /\ expPart[1] = Minus
        expDigits == IF expSigned THEN Tail(expPart) ELSE expPart
        dotPos == FirstIndex(mantissa, {Dot})
        intPart == IF dotPos = 0 THEN mantissa ELSE SubSeq(mantissa, 1, dotPos - 1)
        fracPart == IF dotPos = 0 THEN <<>>
                    ELSE SubSeq(mantissa, dotPos + 1, Len(mantissa))
        digits == intPart \o fracPart
        wellFormed ==
            /\ Len(digits) > 0
            /\ \A i \in 1..Len(digits) : IsDigit(digits[i])
            /\ ePos # 0 => Len(expDigits) > 0
            /\ \A i \in 1..Len(expDigits) : IsDigit(expDigits[i])
        expValue == LET e == DigitsToNat(DigitValues(expDigits))
                    IN  IF expNeg THEN 0 - e ELSE e
        lead == StripLeadingZeros(DigitValues(digits))
        mant == StripTrailingZeros(lead)
        exp == expValue - Len(fracPart) + (Len(lead) - Len(mant))
    IN  IF ~wellFormed THEN Err("ParseFloatError")
        ELSE IF mant = <<>> THEN Ok(NumberFloat(neg, <<>>, 0))
        ELSE Ok(NumberFloat(neg, mant, exp))

-----------------------------------------------------------------------------
(* Strings: the characters of a UTF-8 slice, and unescape_string.          *)

\* str::chars() of a valid UTF-8 byte sequence
RECURSIVE Chars(_)
Chars(bytes) ==
    IF Len(bytes) = 0 THEN <<>>
    ELSE LET b == bytes[1]
         IN  IF b < 128 THEN <<b>> \o Chars(SubSeq(bytes, 2, Len(bytes)))
             ELSE IF b < 224
             THEN <<(b - 192) * 64 + (bytes[2] - 128)>>
                  \o Chars(SubSeq(bytes, 3, Len(bytes)))
             ELSE IF b < 240
             THEN <<(b - 224) * 4096 + (bytes[2] - 128) * 64 + (bytes[3] - 128)>>
                  \o Chars(SubSeq(bytes, 4, Len(bytes)))
             ELSE <<(b - 240) * 262144 + (bytes[2] - 128) * 4096
                    + (bytes[3] - 128) * 64 + (bytes[4] - 128)>>
                  \o Chars(SubSeq(bytes, 5, Len(bytes)))

\* the UTF-8 encoding of a character
Utf8(c) ==
    IF c < 128 THEN <<c>>
    ELSE IF c < 2048 THEN <<192 + (c \div 64), 128 + (c % 64)>>
    ELSE IF c < 65536
    THEN <<224 + (c \div 4096), 128 + ((c \div 64) % 64), 128 + (c % 64)>>
    ELSE <<240 + (c \div 262144), 128 + ((c \div 4096) % 64),
           128 + ((c \div 64) % 64), 128 + (c % 64)>>

\* the bytes of a String holding the characters s
RECURSIVE Bytes(_)
Bytes(s) == IF Len(s) = 0 THEN <<>> ELSE Utf8(s[1]) \o Bytes(Tail(s))

NoHex == 0 - 1

\* hex_value without the arm for 'A'..='F'
hex_valueLowerOnly(chr) ==
    IF chr >= 48 /\ chr <= 57 THEN chr - 48
    ELSE IF chr >= 97 /\ chr <= 102 THEN chr - 87
    ELSE 0 - 1

hex_value(chr) ==
    IF chr >= 48 /\ chr <= 57 THEN chr - 48
    ELSE IF chr >= 97 /\ chr <= 102 THEN chr - 87
    ELSE IF chr >= 65 /\ chr <= 70 THEN chr - 55
    ELSE NoHex

\* char::from_u32 of a 16-bit value: no character for a surrogate
IsScalar16(hex) == hex < 55296 \/ hex > 57343

\* ReadHex without `if i < 3`: the value is shifted after the last digit too
RECURSIVE ReadHexShiftLast(_, _, _, _)
ReadHexShiftLast(chars, p, i, hex) ==
    IF i = 4 THEN [st |-> "ok", hex |-> hex]
    ELSE IF p > Len(chars) THEN Err("UnexpectedEOF")
    ELSE IF hex_value(chars[p]) = NoHex THEN Err("InvalidHex")
    ELSE ReadHexShiftLast(chars, p + 1, i + 1,
                          ((hex + hex_value(chars[p])) * 16) % 65536)

\* the `for i in 0..4` loop of a \u escape, from position p of chars
RECURSIVE ReadHex(_, _, _, _)
ReadHex(chars, p, i, hex) ==
    IF i = 4 THEN [st |-> "ok", hex |-> hex]
    ELSE IF p > Len(chars) THEN Err("UnexpectedEOF")
    ELSE IF hex_value(chars[p]) = NoHex THEN Err("InvalidHex")
    ELSE LET h == hex + hex_value(chars[p])
         IN  ReadHex(chars, p + 1, i + 1, IF i < 3 THEN (h * 16) % 65536 ELSE h)

\* the `while let Some(c) = chars.next()` loop, from position p of chars
RECURSIVE UnescapeFrom(_, _, _)
UnescapeFrom(chars, p, buffer) ==
    IF p > Len(chars) THEN Ok(buffer)
    ELSE IF chars[p] # Backslash THEN UnescapeFrom(chars, p + 1, Append(buffer, chars[p]))
    ELSE IF p + 1 > Len(chars) THEN Err("UnexpectedEOF")
    ELSE LET c == chars[p + 1]
         IN  IF c = 102 THEN UnescapeFrom(chars, p + 2, Append(buffer, 12))
             ELSE IF c = 98 THEN UnescapeFrom(chars, p + 2, Append(buffer, 8))
             ELSE IF c = 110 THEN UnescapeFrom(chars, p + 2, Append(buffer, 10))
             ELSE IF c = 114 THEN UnescapeFrom(chars, p + 2, Append(buffer, 13))
             ELSE IF c = 116 THEN UnescapeFrom(chars, p + 2, Append(buffer, 9))
             ELSE IF c = 117
             THEN LET h == ReadHex(chars, p + 2, 0, 0)
                  IN  IF h.st = "err" THEN h
                      ELSE IF ~IsScalar16(h.hex) THEN Err("InvalidEscapeSequence")
                      ELSE UnescapeFrom(chars, p + 6, Append(buffer, h.hex))
             ELSE UnescapeFrom(chars, p + 2, Append(buffer, c))

unescape_string(bytes) == UnescapeFrom(Chars(bytes), 1, <<>>)

-----------------------------------------------------------------------------
(* The cursor (Parser::peek, indexed_next, rewind, matches, eat_whitespace).*)

NoByte == 0 - 1

\* IsEof with `>` for `>=`
IsEofStrict(i) == i > Len(source)

\* Parser::is_eof with the cursor at i
IsEof(i) == i >= Len(source)

\* Parser::peek with the cursor at i: the byte, or NoByte for None
Peek(i) == IF i < Len(source) THEN source[i + 1] ELSE NoByte

\* Rewind that leaves the cursor where it is
RewindNone(i) == i

\* Parser::rewind from cursor i
Rewind(i) == IF i >= 1 THEN i - 1 ELSE 0

\* Parser::matches with the cursor at i
Matches(i, text) ==
    IF i + Len(text) <= Len(source)
    THEN SubSeq(source, i + 1, i + Len(text)) = text
    ELSE FALSE

\* Parser::eat_whitespace from cursor i: the cursor it stops at
RECURSIVE EatWhitespace(_)
EatWhitespace(i) ==
    IF Peek(i) # NoByte /\ IsAsciiWhitespace(Peek(i)) THEN EatWhitespace(i + 1) ELSE i

-----------------------------------------------------------------------------
(* Control: how a step of the parser leaves the state.                     *)

NoValue == [t |-> "None"]

ArrayFrame == [kind |-> "array", items |-> <<>>, map |-> EmptyMap,
               key |-> <<>>, phase |-> "value"]
ObjectFrame == [kind |-> "object", items |-> <<>>, map |-> EmptyMap,
                key |-> <<>>, phase |-> "key"]

Top == stack[Len(stack)]
Pop == SubSeq(stack, 1, Len(stack) - 1)
ReplaceTop(f) == [stack EXCEPT ![Len(stack)] = f]

\* from_str returns r (an Err propagated by `?`, or its own result)
Finish(r, i) ==
    /\ result' = r
    /\ pc' = "done"
    /\ index' = i
    /\ UNCHANGED <<source, stack, ret, state, is_integer, start, end>>
    /\ UNCHANGED valueVars

\* control passes to p with the cursor at i and the calls in progress stk
Goto(p, i, stk) ==
    /\ pc' = p
    /\ index' = i
    /\ stack' = stk
    /\ ret' = NoValue
    /\ UNCHANGED <<source, result, state, is_integer, start, end>>
    /\ UNCHANGED valueVars

\* a sub-parser returns Ok(v) to its caller
Return(v, i, stk) ==
    /\ pc' = "return"
    /\ ret' = v
    /\ index' = i
    /\ stack' = stk
    /\ UNCHANGED <<source, result, state, is_integer, start, end>>
    /\ UNCHANGED valueVars

-----------------------------------------------------------------------------
(* Value::from_str and Parser::parse_value, parse_null, parse_boolean.     *)

\* from_str: Parser::new, eat_whitespace, then parse_value
FromStr ==
    /\ pc = "from_str"
    /\ Goto("parse_value", EatWhitespace(index), stack)

\* parse_value: dispatch on the byte under the cursor
ParseValue ==
    /\ pc = "parse_value"
    /\ LET b == Peek(index)
       IN  IF b = LowerN THEN Goto("parse_null", index, stack)
           ELSE IF b \in {LowerT, LowerF} THEN Goto("parse_boolean", index, stack)
           ELSE IF b \in {Plus, Minus} \/ IsDigit(b)
           THEN Goto("parse_number", index, stack)
           ELSE IF b = Quote THEN Goto("parse_string", index, stack)
           ELSE IF b = LBracket THEN Goto("parse_array", index, stack)
           ELSE IF b = LBrace THEN Goto("parse_object", index, stack)
           ELSE IF b # NoByte THEN Finish(ErrAt("InvalidCharacter", index), index)
           ELSE Finish(Err("UnexpectedEOF"), index)

ParseNull ==
    /\ pc = "parse_null"
    /\ IF Matches(index, NullText)
       THEN Return(Null, index + 4, stack)
       ELSE Finish(ErrAt("InvalidCharacter", index), index)

ParseBoolean ==
    /\ pc = "parse_boolean"
    /\ IF Matches(index, TrueText) THEN Return(Boolean(TRUE), index + 4, stack)
       ELSE IF Matches(index, FalseText) THEN Return(Boolean(FALSE), index + 5, stack)
       ELSE Finish(ErrAt("InvalidCharacter", index), index)

-----------------------------------------------------------------------------
(* Parser::parse_number.                                                   *)

IsTerminator(b) == b \in {RBrace, RBracket, Comma} \/ IsAsciiWhitespace(b)

\* ToFloat without `is_integer = false`
ToFloatKeepsInteger(s) == [kind |-> "state", state |-> s, int |-> TRUE]

\* the outcomes of an arm: `state = s`; `state = s; is_integer = false`;
\* `end = index; self.rewind(); break`; `return Err(InvalidCharacter(index))`
To(s) == [kind |-> "state", state |-> s, int |-> TRUE]
ToFloat(s) == [kind |-> "state", state |-> s, int |-> FALSE]
Break == [kind |-> "break"]
Invalid == [kind |-> "err"]

\* the arms of `match state` in the loop: what the byte next does in each state
StartArm(next) ==
    IF next \in {Plus, Minus} THEN To("AfterSign")
    ELSE IF next = Zero THEN To("AfterZero")
    ELSE IF next >= One /\ next <= Nine THEN To("IntegerPart")
    ELSE Invalid

AfterSignArm(next) ==
    IF next = Zero THEN To("AfterZero")
    ELSE IF next >= One /\ next <= Nine THEN To("IntegerPart")
    ELSE Invalid

\* AfterZeroArm with digits allowed after the leading zero
AfterZeroArmDigits(next) ==
    IF next = Dot THEN [kind |-> "state", state |-> "AfterDecimalPoint", int |-> FALSE]
    ELSE IF next \in {LowerE, UpperE}
    THEN [kind |-> "state", state |-> "AfterExponent", int |-> FALSE]
    ELSE IF IsDigit(next) THEN [kind |-> "state", state |-> "IntegerPart", int |-> TRUE]
    ELSE IF IsTerminator(next) THEN [kind |-> "break"]
    ELSE [kind |-> "err"]

AfterZeroArm(next) ==
    IF next = Dot THEN ToFloat("AfterDecimalPoint")
    ELSE IF next \in {LowerE, UpperE} THEN ToFloat("AfterExponent")
    ELSE IF IsTerminator(next) THEN Break
    ELSE Invalid

IntegerPartArm(next) ==
    IF IsDigit(next) THEN To("IntegerPart")
    ELSE IF next = Dot THEN ToFloat("AfterDecimalPoint")
    ELSE IF next \in {LowerE, UpperE} THEN ToFloat("AfterExponent")
    ELSE IF IsTerminator(next) THEN Break
    ELSE Invalid

AfterDecimalPointArm(next) ==
    IF IsDigit(next) THEN To("FractionalPart") ELSE Invalid

FractionalPartArm(next) ==
    IF IsDigit(next) THEN To("FractionalPart")
    ELSE IF next \in {LowerE, UpperE} THEN To("AfterExponent")
    ELSE IF IsTerminator(next) THEN Break
    ELSE Invalid

AfterExponentArm(next) ==
    IF next \in {Plus, Minus} THEN To("AfterExponentSign")
    ELSE IF IsDigit(next) THEN To("ExponentPart")
    ELSE Invalid

AfterExponentSignArm(next) ==
    IF IsDigit(next) THEN To("ExponentPart") ELSE Invalid

ExponentPartArm(next) ==
    IF IsDigit(next) THEN To("ExponentPart")
    ELSE IF IsTerminator(next) THEN Break
    ELSE Invalid

\* the `match state` of the loop body
NumberTransition(st, next) ==
    CASE st = "Start" -> StartArm(next)
      [] st = "AfterSign" -> AfterSignArm(next)
      [] st = "AfterZero" -> AfterZeroArm(next)
      [] st = "IntegerPart" -> IntegerPartArm(next)
      [] st = "AfterDecimalPoint" -> AfterDecimalPointArm(next)
      [] st = "FractionalPart" -> FractionalPartArm(next)
      [] st = "AfterExponent" -> AfterExponentArm(next)
      [] st = "AfterExponentSign" -> AfterExponentSignArm(next)
      [] st = "ExponentPart" -> ExponentPartArm(next)

\* parse_number up to its loop: is_integer, state, start and end are set
ParseNumber ==
    /\ pc = "parse_number"
    /\ pc' = "number_loop"
    /\ is_integer' = TRUE
    /\ state' = "Start"
    /\ start' = index
    /\ end' = index
    /\ UNCHANGED <<source, index, stack, ret, result>>
    /\ UNCHANGED valueVars

\* one turn of the loop of parse_number
NumberStep ==
    /\ pc = "number_loop"
    /\ IF index >= Len(source)
       THEN /\ pc' = "number_end"
            /\ UNCHANGED <<source, index, stack, ret, result, state, is_integer,
                           start, end>>
            /\ UNCHANGED valueVars
       ELSE LET i == index
                tr == NumberTransition(state, source[i + 1])
            IN  CASE tr.kind = "state" ->
                        /\ state' = tr.state
                        /\ is_integer' = (is_integer /\ tr.int)
                        /\ index' = i + 1
                        /\ UNCHANGED <<source, pc, stack, ret, result, start, end>>
                        /\ UNCHANGED valueVars
                  [] tr.kind = "break" ->
                        /\ end' = i
                        /\ index' = i + 1
                        /\ pc' = "number_rewind"
                        /\ UNCHANGED <<source, stack, ret, result, state, is_integer, start>>
                        /\ UNCHANGED valueVars
                  [] tr.kind = "err" ->
                        Finish(ErrAt("InvalidCharacter", i), i + 1)

\* a terminator arm after `end = index`: `self.rewind(); break`
NumberRewind ==
    /\ pc = "number_rewind"
    /\ pc' = "number_end"
    /\ index' = Rewind(index)
    /\ UNCHANGED <<source, stack, ret, result, state, is_integer, start, end>>
    /\ UNCHANGED valueVars

\* parse_number after its loop: the captured substring is converted
NumberEnd ==
    /\ pc = "number_end"
    /\ LET number == Slice(source, start, end)
           r == IF is_integer THEN ParseI64(number) ELSE ParseF64(number)
       IN  IF number = <<>> THEN Finish(ErrAt("InvalidCharacter", index), index)
           ELSE IF r.st = "ok" THEN Return(r.value, index, stack)
           ELSE Finish(r, index)

-----------------------------------------------------------------------------
(* Parser::parse_string.                                                   *)

\* parse_string up to its loop: the opening quote
ParseString ==
    /\ pc = "parse_string"
    /\ IF Peek(index) = Quote
       THEN /\ pc' = "string_loop"
            /\ index' = index + 1
            /\ start' = index + 1
            /\ UNCHANGED <<source, stack, ret, result, state, is_integer, end>>
            /\ UNCHANGED valueVars
       ELSE IF Peek(index) # NoByte
       THEN Finish(ErrAt("InvalidCharacter", index), index)
       ELSE Finish(Err("UnexpectedEOF"), index)

\* StringAdvance without the skip of the byte after a backslash
StringAdvanceNoSkip(i, next) == i + 1

\* StringAdvance with `advance(2)` after a backslash
StringAdvanceSkipTwo(i, next) == IF next = Backslash THEN i + 3 ELSE i + 1

\* the cursor after the byte next at i has been read in the loop of parse_string
\* and the string goes on
StringAdvance(i, next) == IF next = Backslash THEN i + 2 ELSE i + 1

\* one turn of the loop of parse_string
StringStep ==
    /\ pc = "string_loop"
    /\ IF index >= Len(source)
       THEN Finish(ErrAt("UnexpectedEOFWhileParsingString", start), index)
       ELSE LET i == index
                next == source[i + 1]
            IN  IF next \in {LF, CR}
                THEN Finish(ErrAt("LineBreakWhileParsingString", i), i + 1)
                ELSE IF next = Quote
                THEN LET r == unescape_string(Slice(source, start, i))
                     IN  IF r.st = "ok"
                         THEN Return(String(r.value), i + 1, stack)
                         ELSE Finish(r, i + 1)
                ELSE /\ index' = StringAdvance(i, next)
                     /\ UNCHANGED <<source, pc, stack, ret, result, state,
                                    is_integer, start, end>>
                     /\ UNCHANGED valueVars

-----------------------------------------------------------------------------
(* Parser::parse_array.                                                    *)

\* parse_array up to its loop: the opening bracket
ParseArray ==
    /\ pc = "parse_array"
    /\ IF Peek(index) = LBracket
       THEN Goto("array_loop", index + 1, Append(stack, ArrayFrame))
       ELSE IF Peek(index) # NoByte
       THEN Finish(ErrAt("InvalidCharacter", index), index + 1)
       ELSE Finish(Err("UnexpectedEOF"), index)

\* ArrayMayClose without the `if array.is_empty()` guard
ArrayMayCloseAlways(items) == TRUE

\* the `Some(b']') if array.is_empty()` arm: may the array close here
ArrayMayClose(items) == items = <<>>

\* the head of the loop of parse_array: close an empty array or parse an element
ArrayLoop ==
    /\ pc = "array_loop"
    /\ LET i == EatWhitespace(index)
           b == Peek(i)
       IN  IF b = RBracket /\ ArrayMayClose(Top.items)
           THEN Return(Array(Top.items), i + 1, Pop)
           ELSE IF b \in {RBracket, Comma}
           THEN Finish(ErrAt("UnexpectedCommaInArrayOrObject", i), i)
           ELSE IF b # NoByte THEN Goto("parse_value", i, stack)
           ELSE Finish(Err("UnexpectedEOF"), i)

\* the loop of parse_array after parse_value returned an element
ArrayAfterValue ==
    /\ pc = "return"
    /\ Len(stack) > 0
    /\ Top.kind = "array"
    /\ LET items == Append(Top.items, ret)
           i == EatWhitespace(index)
           b == Peek(i)
       IN  IF b = RBracket THEN Return(Array(items), i + 1, Pop)
           ELSE IF b = Comma
           THEN Goto("array_loop", i + 1, ReplaceTop([Top EXCEPT !.items = items]))
           ELSE IF b # NoByte THEN Finish(ErrAt("InvalidCharacter", i), i + 1)
           ELSE Finish(Err("UnexpectedEOF"), i)

-----------------------------------------------------------------------------
(* Parser::parse_object.                                                   *)

\* parse_object up to its loop: the opening brace
ParseObject ==
    /\ pc = "parse_object"
    /\ IF Peek(index) = LBrace
       THEN Goto("object_loop", index + 1, Append(stack, ObjectFrame))
       ELSE IF Peek(index) # NoByte
       THEN Finish(ErrAt("InvalidCharacter", index), index + 1)
       ELSE Finish(Err("UnexpectedEOF"), index)

\* the `Some(b'}') if map.is_empty()` arm: may the object close here
ObjectMayClose(map) == DOMAIN map = {}

\* the head of the loop of parse_object: close an empty object or parse a key
ObjectLoop ==
    /\ pc = "object_loop"
    /\ LET i == EatWhitespace(index)
           b == Peek(i)
       IN  IF b = Quote
           THEN Goto("parse_string", i, ReplaceTop([Top EXCEPT !.phase = "key"]))
           ELSE IF b = RBrace /\ ObjectMayClose(Top.map)
           THEN Return(Object(Top.map), i + 1, Pop)
           ELSE IF b \in {RBrace, Comma}
           THEN Finish(ErrAt("UnexpectedCommaInArrayOrObject", i), i)
           ELSE IF b # NoByte THEN Finish(ErrAt("InvalidCharacter", i), i)
           ELSE Finish(Err("UnexpectedEOF"), i)

\* ObjectAfterKey with a comma taken for the colon as well
ObjectAfterKeyAnySeparator ==
    /\ pc = "return"
    /\ Len(stack) > 0
    /\ Top.kind = "object"
    /\ Top.phase = "key"
    /\ LET i == EatWhitespace(index)
           b == Peek(i)
       IN  IF b \in {Colon, Comma}
           THEN Goto("parse_value", EatWhitespace(i + 1),
                     ReplaceTop([Top EXCEPT !.key = ret.s, !.phase = "value"]))
           ELSE IF b # NoByte THEN Finish(ErrAt("InvalidCharacter", i), i + 1)
           ELSE Finish(Err("UnexpectedEOF"), i)

\* the loop of parse_object after parse_string returned the key: the colon
ObjectAfterKey ==
    /\ pc = "return"
    /\ Len(stack) > 0
    /\ Top.kind = "object"
    /\ Top.phase = "key"
    /\ LET i == EatWhitespace(index)
           b == Peek(i)
       IN  IF b = Colon
           THEN Goto("parse_value", EatWhitespace(i + 1),
                     ReplaceTop([Top EXCEPT !.key = ret.s, !.phase = "value"]))
           ELSE IF b # NoByte THEN Finish(ErrAt("InvalidCharacter", i), i + 1)
           ELSE Finish(Err("UnexpectedEOF"), i)

\* the loop of parse_object after parse_value returned the member's value
ObjectAfterValue ==
    /\ pc = "return"
    /\ Len(stack) > 0
    /\ Top.kind = "object"
    /\ Top.phase = "value"
    /\ LET map == MapInsert(Top.map, Top.key, ret)
           i == EatWhitespace(index)
           b == Peek(i)
       IN  IF b = Comma
           THEN Goto("object_loop", i + 1, ReplaceTop([Top EXCEPT !.map = map]))
           ELSE IF b = RBrace THEN Return(Object(map), i + 1, Pop)
           ELSE IF b # NoByte THEN Finish(ErrAt("InvalidCharacter", i), i + 1)
           ELSE Finish(Err("UnexpectedEOF"), i)

-----------------------------------------------------------------------------
(* Value::from_str after parse_value returned.                             *)

FromStrEnd ==
    /\ pc = "return"
    /\ Len(stack) = 0
    /\ LET i == EatWhitespace(index)
       IN  IF ~IsEof(i)
           THEN Finish(ErrAt("InvalidCharacter", i), i)
           ELSE Finish(Ok(ret), i)

-----------------------------------------------------------------------------
(* The inputs Value::from_str is run on (all of them valid UTF-8).          *)

MaxNumLen == 4
MaxStrLen == 4
MaxTokens == 4

RECURSIVE Flatten(_)
Flatten(ss) == IF Len(ss) = 0 THEN <<>> ELSE ss[1] \o Flatten(Tail(ss))

\* '9223372036854775807'
I64MaxText ==
    <<57, 50, 50, 51, 51, 55, 50, 48, 51, 54, 56, 53, 52, 55, 55, 53, 56, 48, 55>>
\* '9223372036854775808'
I64OverText ==
    <<57, 50, 50, 51, 51, 55, 50, 48, 51, 54, 56, 53, 52, 55, 55, 53, 56, 48, 56>>
\* '-9223372036854775808'
I64MinText ==
    <<45, 57, 50, 50, 51, 51, 55, 50, 48, 51, 54, 56, 53, 52, 55, 55, 53, 56, 48, 56>>
\* '-9223372036854775809'
I64UnderText ==
    <<45, 57, 50, 50, 51, 51, 55, 50, 48, 51, 54, 56, 53, 52, 55, 55, 53, 56, 48, 57>>
\* '3.14159265358979'
PiText ==
    <<51, 46, 49, 52, 49, 53, 57, 50, 54, 53, 51, 53, 56, 57, 55, 57>>
\* '{"int":9223372036854775807,"float":3.14159265358979}'
IntFloatObjectText ==
    <<123, 34, 105, 110, 116, 34, 58, 57, 50, 50, 51, 51, 55, 50, 48, 51, 54, 56, 53, 52, 55, 55, 53, 56, 48, 55, 44, 34, 102, 108, 111, 97, 116, 34, 58, 51, 46, 49, 52, 49, 53, 57, 50, 54, 53, 51, 53, 56, 57, 55, 57, 125>>
\* 'null garbage'
NullGarbageText ==
    <<110, 117, 108, 108, 32, 103, 97, 114, 98, 97, 103, 101>>
\* 'null   '
NullSpacesText ==
    <<110, 117, 108, 108, 32, 32, 32>>
\* '[true,false]'
BooleansText ==
    <<91, 116, 114, 117, 101, 44, 102, 97, 108, 115, 101, 93>>
\* '0x14'
HexText ==
    <<48, 120, 49, 52>>
\* '1e+-1'
DoubleSignExponentText ==
    <<49, 101, 43, 45, 49>>
\* '-10.01E+10'
FullFloatText ==
    <<45, 49, 48, 46, 48, 49, 69, 43, 49, 48>>
\* '["line\\\nbreak"]'
EscapedLineBreakText ==
    <<91, 34, 108, 105, 110, 101, 92, 10, 98, 114, 101, 97, 107, 34, 93>>
\* '["line\nbreak"]'
LineBreakText ==
    <<91, 34, 108, 105, 110, 101, 10, 98, 114, 101, 97, 107, 34, 93>>
\* '{"a":1,}'
TrailingCommaObjectText ==
    <<123, 34, 97, 34, 58, 49, 44, 125>>
\* '[1,,1]'
DoubleCommaText ==
    <<91, 49, 44, 44, 49, 93>>

\* '{a:1}'
BareKeyText == <<123, 97, 58, 49, 125>>
\* "{'a':1}"
SingleQuotedKeyText == <<123, 39, 97, 39, 58, 49, 125>>
\* '{"a" 1}'
MissingColonText == <<123, 34, 97, 34, 32, 49, 125>>
\* '{"a"::1}'
DoubleColonText == <<123, 34, 97, 34, 58, 58, 49, 125>>
\* '{"a",1}'
CommaForColonText == <<123, 34, 97, 34, 44, 49, 125>>
\* '{"a":1:"a":1}'
ColonForCommaText == <<123, 34, 97, 34, 58, 49, 58, 34, 97, 34, 58, 49, 125>>
\* '{"a":1]'
BracketForBraceText == <<123, 34, 97, 34, 58, 49, 93>>
\* '{"a":null'
UnclosedObjectText == <<123, 34, 97, 34, 58, 110, 117, 108, 108>>
\* '{"a":1 ,"a":null}'
TwoMembersText ==
    <<123, 34, 97, 34, 58, 49, 32, 44, 34, 97, 34, 58, 110, 117, 108, 108, 125>>

\* '[1,2]'
ArrayOneTwoText == <<91, 49, 44, 50, 93>>
\* '{"a":1 ,"a":[10\n]}'
NestedNumbersText ==
    <<123, 34, 97, 34, 58, 49, 32, 44, 34, 97, 34, 58, 91, 49, 48, 10, 93, 125>>

MemberA == <<LBrace, Quote, LowerA, Quote, Colon>>

\* a literal alone, before each terminator, and as an element or member value
InContexts(text) ==
    {text, text \o <<Space>>, text \o <<Comma>>, text \o <<RBracket>>,
     text \o <<RBrace>>, <<LBracket>> \o text, <<LBracket>> \o text \o <<RBracket>>,
     MemberA \o text \o <<RBrace>>}

NumAlphabet == {Zero, One, Dot, LowerE, UpperE, Plus, Minus}

\* number literals and their malformed neighbours, in each context
IsNumberInput(src) ==
    \E k \in 0..MaxNumLen : \E text \in [1..k -> NumAlphabet] : src \in InContexts(text)

StrAlphabet == {LowerA, LowerN, Quote, Backslash, LF, CR}

\* an opening quote and what follows it, at top level and as an array element
IsStringInput(src) ==
    \E k \in 0..MaxStrLen : \E body \in [1..k -> StrAlphabet] :
        src \in {<<Quote>> \o body, <<LBracket, Quote>> \o body}

Tokens == {<<LBracket>>, <<RBracket>>, <<LBrace>>, <<RBrace>>, <<Comma>>, <<Colon>>,
           <<Space>>, <<One>>, <<Quote, LowerA, Quote>>}

\* every sequence of at most MaxTokens tokens
IsTokenInput(src) ==
    \E k \in 0..MaxTokens : \E ts \in [1..k -> Tokens] : src = Flatten(ts)

NamedInputs ==
    UNION {InContexts(text) :
           text \in {I64MaxText, I64OverText, I64MinText, I64UnderText, PiText,
                     HexText, DoubleSignExponentText, FullFloatText}}
    \cup {IntFloatObjectText, NullGarbageText, NullSpacesText, BooleansText,
          EscapedLineBreakText, LineBreakText, TrueText, FalseText, NullText,
          TrailingCommaObjectText, DoubleCommaText, BareKeyText,
          SingleQuotedKeyText, MissingColonText, DoubleColonText,
          CommaForColonText, ColonForCommaText, BracketForBraceText,
          UnclosedObjectText, TwoMembersText, ArrayOneTwoText, NestedNumbersText}

IsInput(src) ==
    \/ IsNumberInput(src)
    \/ IsStringInput(src)
    \/ IsTokenInput(src)
    \/ src \in NamedInputs

-----------------------------------------------------------------------------
(* The strings unescape_string is run on.                                  *)

MaxEscLen == 3
MaxHexLen == 5

UpperHex == <<48, 49, 50, 51, 52, 53, 54, 55, 56, 57, 65, 66, 67, 68, 69, 70>>
LowerHex == <<48, 49, 50, 51, 52, 53, 54, 55, 56, 57, 97, 98, 99, 100, 101, 102>>

\* the four hex digits of a 16-bit value, most significant first
Hex4(c, digits) ==
    <<digits[(c \div 4096) + 1], digits[((c \div 256) % 16) + 1],
      digits[((c \div 16) % 16) + 1], digits[(c % 16) + 1]>>

\* the single-character escapes: form feed, backspace, newline, carriage
\* return, tab, and the backslash-prefixed '"', '\' and '/'
ShortEscapes == {<<12, 102>>, <<8, 98>>, <<10, 110>>, <<13, 114>>, <<9, 116>>,
                 <<34, 34>>, <<92, 92>>, <<47, 47>>}

\* the escaped forms of the character c: its single-character escape, \uXXXX
\* in either letter case, and c itself where it needs no escape
EscapedForms(c) ==
    {<<Backslash, e[2]>> : e \in {x \in ShortEscapes : x[1] = c}}
    \cup (IF c < 65536 /\ IsScalar16(c)
          THEN {<<Backslash, 117>> \o Hex4(c, d) : d \in {UpperHex, LowerHex}}
          ELSE {})
    \cup (IF c >= 32 /\ c \notin {Quote, Backslash} THEN {<<c>>} ELSE {})

\* backspace, tab, newline, form feed, carriage return, '"', '/', '\', 'a',
\* the euro sign
EscChars == {8, 9, 10, 12, 13, 34, 47, 92, 97, 8364}

EscItems == UNION {{[c |-> c, form |-> f] : f \in EscapedForms(c)} : c \in EscChars}

\* '0', '8', 'A', 'F', 'd', 'g' and 'é': hex digits of both cases, the digits
\* of the surrogate range, and two characters that are no hex digits
HexAlphabet == {48, 56, 65, 70, 100, 103, 233}

-----------------------------------------------------------------------------
(* The accessors of Value (src/src/lib.rs).                                *)

MaxArrayLen == 3

NoOp == [name |-> "none"]

KeyA == <<97>>
KeyB == <<98>>
Keys == {KeyA, KeyB}

Indices == 0..MaxArrayLen

Leaves == {Null, Boolean(TRUE), NumberInt(FALSE, <<1>>), String(KeyA)}

\* 'é' and 'a€😀': characters of two, three and four bytes
Accented == String(<<233>>)
Mixed == String(<<97, 8364, 128512>>)

SeedValues == Leaves \cup {Array(<<>>), Object(EmptyMap), Accented, Mixed}

\* what `I: IndexOrKey` is called with: a position or a key
IndexOrKeys ==
    {[kind |-> "usize", i |-> i, k |-> <<>>] : i \in Indices}
    \cup {[kind |-> "str", i |-> 0, k |-> k] : k \in Keys}

\* the accessor panics: the call does not return
Panic(call) ==
    /\ panicked' = TRUE
    /\ op' = call
    /\ UNCHANGED value

\* IndexMutUsize with Null turned into an Array and the Array extended with
\* Null up to position i, the way the key impls treat Null
IndexMutUsizeVivify(i) ==
    /\ ~panicked
    /\ LET call == [name |-> "index_mut_usize", i |-> i, before |-> value]
           array == IF value.t = "Null" THEN Array(<<>>) ELSE value
       IN  IF array.t # "Array" THEN Panic(call)
           ELSE /\ value' = Array([k \in 1..(IF i < Len(array.a) THEN Len(array.a)
                                               ELSE i + 1) |->
                                     IF k <= Len(array.a) THEN array.a[k] ELSE Null])
                /\ op' = call
                /\ UNCHANGED panicked

\* <usize as IndexOrKey>::get_or_insert(i, value), through IndexMut::index_mut
IndexMutUsize(i) ==
    /\ ~panicked
    /\ LET call == [name |-> "index_mut_usize", i |-> i, before |-> value]
       IN  IF value.t # "Array" THEN Panic(call)
           ELSE IF i >= Len(value.a) THEN Panic(call)
           ELSE /\ op' = call
                /\ UNCHANGED <<value, panicked>>

\* IndexMutKey with `insert(k, Null)` for `entry(k).or_insert(Null)`
IndexMutKeyOverwrite(k) ==
    /\ ~panicked
    /\ LET call == [name |-> "index_mut_key", k |-> k, before |-> value]
           object == IF value.t = "Null" THEN Object(EmptyMap) ELSE value
       IN  IF object.t # "Object" THEN Panic(call)
           ELSE /\ value' = Object(MapInsert(object.o, k, Null))
                /\ op' = call
                /\ UNCHANGED panicked

\* <&str as IndexOrKey>::get_or_insert(k, value), through IndexMut::index_mut
IndexMutKey(k) ==
    /\ ~panicked
    /\ LET call == [name |-> "index_mut_key", k |-> k, before |-> value]
           object == IF value.t = "Null" THEN Object(EmptyMap) ELSE value
       IN  IF object.t # "Object" THEN Panic(call)
           ELSE /\ value' = IF k \in DOMAIN object.o THEN object
                            ELSE Object(MapInsert(object.o, k, Null))
                /\ op' = call
                /\ UNCHANGED panicked

\* Value::push(v)
Push(v) ==
    /\ ~panicked
    /\ LET call == [name |-> "push", v |-> v, before |-> value]
           array == IF value.t = "Null" THEN Array(<<>>) ELSE value
       IN  IF array.t # "Array" THEN Panic(call)
           ELSE /\ Len(array.a) < MaxArrayLen
                /\ value' = Array(Append(array.a, v))
                /\ op' = call
                /\ UNCHANGED panicked

\* Insert with `entry(k).or_insert(v)` for `insert(k, v)`: the first value stays
InsertKeepsFirst(k, v) ==
    /\ ~panicked
    /\ LET call == [name |-> "insert", k |-> k, v |-> v, before |-> value,
                    out |-> NoValue]
           object == IF value.t = "Null" THEN Object(EmptyMap) ELSE value
       IN  IF object.t # "Object" THEN Panic(call)
           ELSE /\ value' = IF k \in DOMAIN object.o THEN object
                            ELSE Object(MapInsert(object.o, k, v))
                /\ op' = [call EXCEPT !.out = IF k \in DOMAIN object.o
                                               THEN object.o[k] ELSE NoValue]
                /\ UNCHANGED panicked

\* Value::insert(k, v)
Insert(k, v) ==
    /\ ~panicked
    /\ LET call == [name |-> "insert", k |-> k, v |-> v, before |-> value,
                    out |-> NoValue]
           object == IF value.t = "Null" THEN Object(EmptyMap) ELSE value
       IN  IF object.t # "Object" THEN Panic(call)
           ELSE /\ value' = Object(MapInsert(object.o, k, v))
                /\ op' = [call EXCEPT !.out = IF k \in DOMAIN object.o
                                               THEN object.o[k] ELSE NoValue]
                /\ UNCHANGED panicked

\* IndexOrKey::get(ik, v): Some(child), or NoValue for None
IndexOrKeyGet(ik, v) ==
    IF ik.kind = "usize"
    THEN IF v.t # "Array" THEN NoValue
         ELSE IF ik.i < Len(v.a) THEN v.a[ik.i + 1] ELSE NoValue
    ELSE IF v.t # "Object" THEN NoValue
         ELSE IF ik.k \in DOMAIN v.o THEN v.o[ik.k] ELSE NoValue

\* Value::get(ik)
Get(ik) ==
    /\ ~panicked
    /\ op' = [name |-> "get", ik |-> ik, before |-> value,
              out |-> IndexOrKeyGet(ik, value)]
    /\ UNCHANGED <<value, panicked>>

\* Index with `unwrap()` for `unwrap_or(&NULL)`
IndexUnwrap(ik) ==
    /\ ~panicked
    /\ LET found == IndexOrKeyGet(ik, value)
       IN  IF found.t = "None"
           THEN Panic([name |-> "index", ik |-> ik, before |-> value])
           ELSE /\ op' = [name |-> "index", ik |-> ik, before |-> value,
                          out |-> found]
                /\ UNCHANGED <<value, panicked>>

\* <Value as Index<I>>::index(ik): the child, or the static NULL
Index(ik) ==
    /\ ~panicked
    /\ LET found == IndexOrKeyGet(ik, value)
       IN  op' = [name |-> "index", ik |-> ik, before |-> value,
                  out |-> IF found.t = "None" THEN Null ELSE found]
    /\ UNCHANGED <<value, panicked>>

\* Value::len: String::len is the length in bytes
len(v) ==
    IF v.t = "String" THEN Len(Bytes(v.s))
    ELSE IF v.t = "Array" THEN Len(v.a)
    ELSE IF v.t = "Object" THEN Cardinality(DOMAIN v.o)
    ELSE 0

\* a call of Value::len
LenCall ==
    /\ ~panicked
    /\ op' = [name |-> "len", before |-> value, out |-> len(value)]
    /\ UNCHANGED <<value, panicked>>

-----------------------------------------------------------------------------
(* The specifications.                                                     *)

\* Value::from_str on every input
Init ==
    /\ IsInput(source)
    /\ index = 0
    /\ pc = "from_str"
    /\ stack = <<>>
    /\ ret = NoValue
    /\ result = Pending
    /\ state = "Start"
    /\ is_integer = TRUE
    /\ start = 0
    /\ end = 0
    /\ value = Null
    /\ panicked = FALSE
    /\ op = NoOp

Next ==
    \/ FromStr
    \/ ParseValue
    \/ ParseNull
    \/ ParseBoolean
    \/ ParseNumber
    \/ NumberStep
    \/ NumberRewind
    \/ NumberEnd
    \/ ParseString
    \/ StringStep
    \/ ParseArray
    \/ ArrayLoop
    \/ ArrayAfterValue
    \/ ParseObject
    \/ ObjectLoop
    \/ ObjectAfterKey
    \/ ObjectAfterValue
    \/ FromStrEnd

Spec == Init /\ [][Next]_vars

\* the accessors on a Value built from a seed
InitValue ==
    /\ source = <<>>
    /\ index = 0
    /\ pc = "idle"
    /\ stack = <<>>
    /\ ret = NoValue
    /\ result = Pending
    /\ state = "Start"
    /\ is_integer = TRUE
    /\ start = 0
    /\ end = 0
    /\ value \in SeedValues
    /\ panicked = FALSE
    /\ op = NoOp

NextValue ==
    \/ \E i \in Indices : IndexMutUsize(i) /\ UNCHANGED parserVars
    \/ \E k \in Keys : IndexMutKey(k) /\ UNCHANGED parserVars
    \/ \E v \in Leaves : Push(v) /\ UNCHANGED parserVars
    \/ \E k \in Keys, v \in Leaves : Insert(k, v) /\ UNCHANGED parserVars
    \/ \E ik \in IndexOrKeys : Get(ik) /\ UNCHANGED parserVars
    \/ \E ik \in IndexOrKeys : Index(ik) /\ UNCHANGED parserVars
    \/ LenCall /\ UNCHANGED parserVars

SpecValue == InitValue /\ [][NextValue]_vars

\* unescape_string on the escaped form of a string, and on a \u escape followed
\* by any characters
InitUnescape ==
    /\ \/ \E k \in 0..MaxEscLen : \E items \in [1..k -> EscItems] :
            /\ source = Bytes(Flatten([i \in 1..k |-> items[i].form]))
            /\ value = String([i \in 1..k |-> items[i].c])
            /\ op = [name |-> "escaped"]
       \/ \E k \in 0..MaxHexLen : \E body \in [1..k -> HexAlphabet] :
            /\ source = Bytes(<<Backslash, 117>> \o body)
            /\ value = String(body)
            /\ op = [name |-> "hex"]
    /\ index = 0
    /\ pc = "unescape"
    /\ stack = <<>>
    /\ ret = NoValue
    /\ result = Pending
    /\ state = "Start"
    /\ is_integer = TRUE
    /\ start = 0
    /\ end = 0
    /\ panicked = FALSE

\* a call of unescape_string
Unescape ==
    /\ pc = "unescape"
    /\ result' = unescape_string(source)
    /\ pc' = "unescaped"
    /\ UNCHANGED <<source, index, stack, ret, state, is_integer, start, end>>
    /\ UNCHANGED valueVars

NextUnescape == Unescape

SpecUnescape == InitUnescape /\ [][NextUnescape]_vars

-----------------------------------------------------------------------------
(* What the properties below are stated with.                              *)

\* the substring parse_number captured: &self.source[start..end]
Captured == Slice(source, start, end)

HasFloatMarker(text) == \E i \in 1..Len(text) : text[i] \in {Dot, LowerE, UpperE}

AllDigits(text) == \A i \in 1..Len(text) : IsDigit(text[i])

\* sign? (0 | [1-9][0-9]*) (. [0-9]+)? ([eE] sign? [0-9]+)?
MatchesNumberGrammar(text) ==
    LET signed == Len(text) > 0 /\ text[1] \in {Plus, Minus}
        body == IF signed THEN Tail(text) ELSE text
        ePos == FirstIndex(body, {LowerE, UpperE})
        mantissa == IF ePos = 0 THEN body ELSE SubSeq(body, 1, ePos - 1)
        expPart == IF ePos = 0 THEN <<>> ELSE SubSeq(body, ePos + 1, Len(body))
        expSigned == Len(expPart) > 0 /\ expPart[1] \in {Plus, Minus}
        expDigits == IF expSigned THEN Tail(expPart) ELSE expPart
        dotPos == FirstIndex(mantissa, {Dot})
        intPart == IF dotPos = 0 THEN mantissa ELSE SubSeq(mantissa, 1, dotPos - 1)
        fracPart == IF dotPos = 0 THEN <<>>
                    ELSE SubSeq(mantissa, dotPos + 1, Len(mantissa))
    IN  /\ Len(intPart) > 0
        /\ AllDigits(intPart)
        /\ Len(intPart) > 1 => intPart[1] # Zero
        /\ dotPos # 0 => (Len(fracPart) > 0 /\ AllDigits(fracPart))
        /\ ePos # 0 => (Len(expDigits) > 0 /\ AllDigits(expDigits))

\* the number a literal denotes: an integer parse without `.`/exponent, else a float parse
Convert(text) == IF HasFloatMarker(text) THEN ParseF64(text) ELSE ParseI64(text)

\* the digits of an integer literal, without its sign and leading zeros
Magnitude(text) ==
    StripLeadingZeros(DigitValues(IF text[1] \in {Plus, Minus} THEN Tail(text) ELSE text))

\* an integer literal below i64::MIN or above i64::MAX
OutsideI64(text) ==
    LET mag == Magnitude(text)
        limit == IF text[1] = Minus THEN I64MinDigits ELSE I64MaxDigits
    IN  \/ Len(mag) > Len(limit)
        \/ /\ Len(mag) = Len(limit)
           /\ \E i \in 1..Len(mag) :
                 mag[i] > limit[i] /\ \A j \in 1..(i - 1) : mag[j] = limit[j]

\* the first cursor position from i on that holds no ASCII whitespace (the input
\* length when only whitespace is left)
FirstNonWhitespace(i) ==
    CHOOSE k \in i..Len(source) :
        /\ \A j \in i..(k - 1) : IsAsciiWhitespace(source[j + 1])
        /\ k = Len(source) \/ ~IsAsciiWhitespace(source[k + 1])

\* the byte at position p (counted from 1) follows an odd run of backslashes
\* that starts at position lo or later: the backslash before it escapes it
Escaped(p, lo) ==
    LET run == CHOOSE n \in 0..(p - lo) :
                   /\ \A j \in (p - n)..(p - 1) : source[j] = Backslash
                   /\ p - n = lo \/ source[p - n - 1] # Backslash
    IN  run % 2 = 1

\* the input is one literal followed by a terminator, or an element or member value
Terminated(text) ==
    {text \o <<Space>>, text \o <<Comma>>, text \o <<RBracket>>, text \o <<RBrace>>,
     <<LBracket>> \o text \o <<RBracket>>, MemberA \o text \o <<RBrace>>}

-----------------------------------------------------------------------------
(* C1..C10.                                                                *)

\* C1: a numeric literal that runs to the end of the input is parsed to the
\* number it denotes, as it is before a terminator; 9223372036854775807 alone
\* yields Int(i64::MAX).
C1_LiteralAtEndOfInput ==
    /\ (pc = "done" /\ MatchesNumberGrammar(source)) => result = Convert(source)
    /\ (pc = "done" /\ source = I64MaxText)
          => result = Ok(NumberInt(FALSE, I64MaxDigits))

\* C2: parse_number converts the captured substring as an integer iff it holds
\* no `.` and no `e`/`E`, and the number it returns is Int iff it holds none.
C2_IntIffNoMarker ==
    /\ (pc = "number_end" /\ Captured # <<>>)
          => (is_integer <=> ~HasFloatMarker(Captured))
    /\ (pc = "return" /\ ret.t \in {"Int", "Float"})
          => /\ ret.t = "Int" <=> ~HasFloatMarker(Captured)
             /\ Ok(ret) = Convert(Captured)

IntKey == <<105, 110, 116>>

\* the second member of {"int":9223372036854775807,"float":3.14159265358979} has
\* been parsed to a Float, the first one to an Int
C2_Witness ==
    /\ source = IntFloatObjectText
    /\ pc = "return"
    /\ ret.t = "Float"
    /\ Len(stack) = 1
    /\ Top.map[IntKey] = NumberInt(FALSE, I64MaxDigits)

\* 01, 1., .1, 1e, 1e+, 1e+-1, 0x14
MalformedNumbers ==
    {<<Zero, One>>, <<One, Dot>>, <<Dot, One>>, <<One, LowerE>>,
     <<One, LowerE, Plus>>, DoubleSignExponentText, HexText}

\* C3: every number parse_number returns was captured from a literal of the
\* grammar, and the malformed literals 01, 1., .1, 1e, 1e+, 1e+-1 and 0x14 make
\* from_str fail at top level, as an array element and as a member value.
C3_MalformedNumbersRejected ==
    /\ (pc = "return" /\ ret.t \in {"Int", "Float"}) => MatchesNumberGrammar(Captured)
    /\ (pc = "done" /\ \E text \in MalformedNumbers : source \in InContexts(text))
          => result.st = "err"

\* [0x14] has been rejected at the x
C3_Witness ==
    /\ pc = "done"
    /\ source = <<LBracket>> \o HexText \o <<RBracket>>
    /\ result = ErrAt("InvalidCharacter", 2)

\* the step of from_str after the top-level value is parsed
C4_Return ==
    (pc = "return" /\ stack = <<>>)
        => LET k == FirstNonWhitespace(index)
           IN  result' = IF k = Len(source) THEN Ok(ret)
                         ELSE ErrAt("InvalidCharacter", k)

\* C4: once the top-level value is parsed, from_str returns it if only ASCII
\* whitespace is left, and InvalidCharacter at the first other byte if not.
C4_TrailingBytes == [][C4_Return]_vars

\* `null garbage` has been rejected at the g
C4_Witness ==
    /\ pc = "done"
    /\ source = NullGarbageText
    /\ ret = Null
    /\ result = ErrAt("InvalidCharacter", 5)

\* [,]  [1,]  [1,,1]  {,}  {"a":1,}
StrayCommas ==
    {<<LBracket, Comma, RBracket>>, <<LBracket, One, Comma, RBracket>>,
     DoubleCommaText, <<LBrace, Comma, RBrace>>, TrailingCommaObjectText}

\* the step of parse_array or parse_object where an element or member is due
C5_LoopHead ==
    pc \in {"array_loop", "object_loop"} =>
        LET k == FirstNonWhitespace(index)
            b == Peek(k)
            close == IF pc = "array_loop" THEN RBracket ELSE RBrace
            empty == IF pc = "array_loop" THEN Array(<<>>) ELSE Object(EmptyMap)
            afterComma == source[index] = Comma
        IN  /\ (b = Comma \/ (b = close /\ afterComma))
                  => (pc' = "done" /\ result'.st = "err")
            /\ (b = close /\ ~afterComma)
                  => (pc' = "return" /\ ret' = empty /\ index' = k + 1)

C5_Examples ==
    pc = "done" =>
        /\ source = <<LBracket, RBracket>> => result = Ok(Array(<<>>))
        /\ source = <<LBrace, RBrace>> => result = Ok(Object(EmptyMap))
        /\ source \in StrayCommas => result.st = "err"

\* C5: [] and {} parse to the empty Array and Object; where an element or member
\* is due, a comma fails the parse, and so does the closing delimiter unless it
\* comes right after the opening one, where it yields the empty container.
C5_StrayCommas == []C5_Examples /\ [][C5_LoopHead]_vars

\* [1,] has been rejected at the ]
C5_Witness ==
    /\ pc = "done"
    /\ source = <<LBracket, One, Comma, RBracket>>
    /\ result = ErrAt("UnexpectedCommaInArrayOrObject", 3)

C6_Examples ==
    pc = "done" =>
        /\ source \in Terminated(I64OverText) => result = Err("ParseIntError")
        /\ source \in Terminated(I64UnderText) => result = Err("ParseIntError")

C6_Returned ==
    /\ (pc = "return" /\ ret.t = "Int")
          => (~OutsideI64(Captured) /\ ret.mag = Magnitude(Captured))
    /\ (pc = "return" /\ ret.t = "Float") => HasFloatMarker(Captured)

\* the step of parse_number that converts a captured integer literal
C6_Conversion ==
    (pc = "number_end" /\ Captured # <<>> /\ ~HasFloatMarker(Captured)
                       /\ OutsideI64(Captured))
        => (pc' = "done" /\ result' = Err("ParseIntError"))

\* C6: an integer literal outside the i64 range fails with ParseIntError; an Int
\* that is returned has the digits of its literal, and a Float is returned only
\* for a literal with `.` or an exponent.
C6_IntegerOverflow == []C6_Examples /\ []C6_Returned /\ [][C6_Conversion]_vars

\* 9223372036854775808 before a space has been rejected
C6_Witness ==
    /\ pc = "done"
    /\ source = I64OverText \o <<Space>>
    /\ result = Err("ParseIntError")

\* C7 as stated: the index carried by UnexpectedEOFWhileParsingString is the
\* index of the string's opening quote.
C7_CarriesOpeningQuote ==
    (pc = "done" /\ result.st = "err"
                 /\ result.err = "UnexpectedEOFWhileParsingString")
        => result.at = start - 1

\* C7, amended: a string in which the end of the input comes before a closing
\* quote and before a line break, neither of them escaped, fails with
\* UnexpectedEOFWhileParsingString, and the index carried is the index of the
\* byte after the opening quote.
C7_CarriesIndexAfterQuote ==
    /\ pc = "string_loop" => (start >= 1 /\ source[start] = Quote)
    /\ (pc = "done" /\ result.st = "err"
                    /\ result.err = "UnexpectedEOFWhileParsingString")
          => (result.at = start /\ source[start] = Quote)
    /\ (pc = "done" /\ Len(source) >= 1 /\ source[1] = Quote
                    /\ \A p \in 2..Len(source) :
                          source[p] \in {Quote, LF, CR} => Escaped(p, 2))
          => result = ErrAt("UnexpectedEOFWhileParsingString", 1)

\* ["a has been rejected: the quote is at index 1, the index carried is 2
C7_Witness ==
    /\ pc = "done"
    /\ source = <<LBracket, Quote, LowerA>>
    /\ result = ErrAt("UnexpectedEOFWhileParsingString", 2)

\* C8: the first raw line feed or carriage return inside a string (no closing
\* quote before it) fails the parse with LineBreakWhileParsingString at the
\* index of that byte.
C8_RawLineBreak ==
    (pc = "done" /\ Len(source) >= 1 /\ source[1] = Quote)
        => \A p \in 2..Len(source) :
              (/\ source[p] \in {LF, CR}
               /\ \A q \in 2..(p - 1) :
                     /\ source[q] \notin {LF, CR}
                     /\ source[q] = Quote => Escaped(q, 2))
                 => result = ErrAt("LineBreakWhileParsingString", p - 1)

\* C9: a string in which a backslash is followed by a raw line break is rejected.
C9_EscapedLineBreakRejected ==
    (pc = "done" /\ \/ source = EscapedLineBreakText
                    \/ /\ Len(source) >= 3
                       /\ source[1] = Quote
                       /\ source[2] = Backslash
                       /\ source[3] \in {LF, CR})
        => result.st = "err"

\* C10 as stated: mutable indexing of Null by a position converts it to an
\* Array and gives access to the element, without panicking.
C10_IndexMutNullByPosition ==
    (op.name = "index_mut_usize" /\ op.before.t = "Null")
        => (~panicked /\ value.t = "Array" /\ op.i < Len(value.a))

\* C10, amended: mutable indexing by a position never converts or extends the
\* value; it panics on Null (which stays Null) as on every value that is not an
\* Array holding that position, and gives access to the element otherwise.
C10_IndexMutByPosition ==
    op.name = "index_mut_usize" =>
        /\ value.t = op.before.t
        /\ value = op.before
        /\ panicked <=> ~(op.before.t = "Array" /\ op.i < Len(op.before.a))
        /\ op.before.t = "Null" => (panicked /\ value = Null)

\* Null has been indexed by position 0: the call panicked, the value is Null
C10_Witness ==
    /\ op.name = "index_mut_usize"
    /\ op.before.t = "Null"
    /\ op.i = 0
    /\ panicked
    /\ value = Null

\* C11: len is the number of characters of a String (multi-byte characters
\* included), the number of elements of an Array, the number of entries of an
\* Object, and 0 for Null, Boolean and Number.
C11_LenCountsCharacters ==
    op.name = "len" =>
        op.out = (CASE op.before.t = "String" -> Len(op.before.s)
                    [] op.before.t = "Array" -> Len(op.before.a)
                    [] op.before.t = "Object" -> Cardinality(DOMAIN op.before.o)
                    [] OTHER -> 0)

\* the child a position or key names in v, if v holds one there
Present(ik, v) ==
    \/ ik.kind = "usize" /\ v.t = "Array" /\ ik.i < Len(v.a)
    \/ ik.kind = "str" /\ v.t = "Object" /\ ik.k \in DOMAIN v.o

Child(ik, v) == IF ik.kind = "usize" THEN v.a[ik.i + 1] ELSE v.o[ik.k]

\* C12: read access is total: get gives None and the indexing operator gives
\* Null, without a panic, when the kinds do not match, the position is out of
\* range or the key is absent; otherwise both give the stored child; the Value
\* is never changed.
C12_ReadAccessTotal ==
    op.name \in {"get", "index"} =>
        /\ ~panicked
        /\ value.t = op.before.t
        /\ value = op.before
        /\ IF Present(op.ik, op.before)
           THEN /\ op.out.t = Child(op.ik, op.before).t
                /\ op.out = Child(op.ik, op.before)
           ELSE op.out.t = (IF op.name = "get" THEN "None" ELSE "Null")

\* the indexing operator has given Null for a position past the end of an
\* Array whose elements are not Null
C12_Witness ==
    /\ op.name = "index"
    /\ op.ik.kind = "usize"
    /\ op.before.t = "Array"
    /\ Len(op.before.a) = 2
    /\ \A i \in 1..2 : op.before.a[i].t = "Boolean"
    /\ op.ik.i = 2
    /\ op.out.t = "Null"
    /\ value.t = "Array"
    /\ ~panicked

\* C13: mutable indexing by key turns Null into an Object with a Null entry
\* under the key; on an Object it adds a Null entry only if the key is absent
\* and leaves every existing entry unchanged; on any other variant it panics.
C13_IndexMutByKey ==
    op.name = "index_mut_key" =>
        IF op.before.t = "Null"
        THEN /\ ~panicked
             /\ value.t = "Object"
             /\ DOMAIN value.o = {op.k}
             /\ value.o[op.k].t = "Null"
        ELSE IF op.before.t = "Object"
        THEN /\ ~panicked
             /\ value.t = "Object"
             /\ DOMAIN value.o = DOMAIN op.before.o \cup {op.k}
             /\ \A x \in DOMAIN op.before.o :
                    /\ value.o[x].t = op.before.o[x].t
                    /\ value.o[x] = op.before.o[x]
             /\ op.k \notin DOMAIN op.before.o => value.o[op.k].t = "Null"
        ELSE /\ panicked
             /\ value.t = op.before.t
             /\ value = op.before

\* an Object has been indexed by a key it holds a non-Null entry under, and the
\* entry is still there
C13_Witness ==
    /\ op.name = "index_mut_key"
    /\ op.before.t = "Object"
    /\ op.k \in DOMAIN op.before.o
    /\ op.before.o[op.k].t = "Boolean"
    /\ value.o[op.k].t = "Boolean"
    /\ ~panicked

\* C14, push: on Null an Array of exactly the pushed value; on an Array the
\* value appended after the unchanged earlier elements; a panic otherwise.
C14_Push ==
    op.name = "push" =>
        IF op.before.t = "Null"
        THEN ~panicked /\ value.t = "Array" /\ value.a = <<op.v>>
        ELSE IF op.before.t = "Array"
        THEN /\ ~panicked
             /\ value.t = "Array"
             /\ Len(value.a) = Len(op.before.a) + 1
             /\ \A i \in 1..Len(op.before.a) :
                    /\ value.a[i].t = op.before.a[i].t
                    /\ value.a[i] = op.before.a[i]
             /\ value.a[Len(value.a)].t = op.v.t
             /\ value.a[Len(value.a)] = op.v
        ELSE panicked /\ value.t = op.before.t /\ value = op.before

\* C14, insert: on Null an Object of exactly that entry; on an Object the key
\* is set, the previous value returned and the other entries unchanged; a
\* panic otherwise.
C14_Insert ==
    op.name = "insert" =>
        IF op.before.t = "Null"
        THEN /\ ~panicked
             /\ value.t = "Object"
             /\ DOMAIN value.o = {op.k}
             /\ value.o[op.k].t = op.v.t
             /\ value.o[op.k] = op.v
             /\ op.out.t = "None"
        ELSE IF op.before.t = "Object"
        THEN /\ ~panicked
             /\ value.t = "Object"
             /\ DOMAIN value.o = DOMAIN op.before.o \cup {op.k}
             /\ value.o[op.k].t = op.v.t
             /\ value.o[op.k] = op.v
             /\ \A x \in DOMAIN op.before.o \ {op.k} :
                    /\ value.o[x].t = op.before.o[x].t
                    /\ value.o[x] = op.before.o[x]
             /\ IF op.k \in DOMAIN op.before.o
                THEN /\ op.out.t = op.before.o[op.k].t
                     /\ op.out = op.before.o[op.k]
                ELSE op.out.t = "None"
        ELSE panicked /\ value.t = op.before.t /\ value = op.before

\* C14: push and insert coalesce Null and panic on a mismatch.
C14_PushInsert == C14_Push /\ C14_Insert

\* a value has been inserted under a key that held another value: the entry is
\* the new value, the old one was returned and the other entry is still there
C14_Witness ==
    /\ op.name = "insert"
    /\ op.before.t = "Object"
    /\ op.k \in DOMAIN op.before.o
    /\ op.before.o[op.k].t = "Boolean"
    /\ op.v.t = "String"
    /\ value.o[op.k].t = "String"
    /\ op.out.t = "Boolean"
    /\ Cardinality(DOMAIN value.o) = 2
    /\ ~panicked

\* C15: unescape_string applied to the escaped form of a string built from the
\* documented escape set returns the original string exactly.
C15_RoundTrip ==
    (pc = "unescaped" /\ op.name = "escaped") => result = Ok(value.s)

\* newline, the euro sign and a backslash, escaped as '\n', '€' and '\\',
\* have been unescaped
C15_Witness ==
    /\ pc = "unescaped"
    /\ op.name = "escaped"
    /\ value.s = <<10, 8364, 92>>
    /\ source = <<92, 110, 92, 117, 50, 48, 97, 99, 92, 92>>
    /\ result.st = "ok"

\* the value of a hex digit in either letter case, and 16 for any other character
HexDigit(c) ==
    IF \E n \in 1..16 : c \in {UpperHex[n], LowerHex[n]}
    THEN (CHOOSE n \in 1..16 : c \in {UpperHex[n], LowerHex[n]}) - 1
    ELSE 16

\* C16: a \u escape takes exactly the next four characters, most significant
\* first and in either letter case, as one 16-bit value that becomes one
\* character; a character that is no hex digit gives InvalidHex, the end of the
\* string before the fourth digit UnexpectedEOF, a surrogate value
\* InvalidEscapeSequence. The characters are read in order, so the first of
\* them that is missing or no hex digit decides.
C16_UnicodeEscape ==
    (pc = "unescaped" /\ op.name = "hex") =>
        LET body == value.s
            four == SubSeq(body, 1, IF Len(body) < 4 THEN Len(body) ELSE 4)
            hex == 4096 * HexDigit(body[1]) + 256 * HexDigit(body[2])
                   + 16 * HexDigit(body[3]) + HexDigit(body[4])
        IN  IF \E i \in 1..Len(four) : HexDigit(four[i]) = 16
            THEN result = Err("InvalidHex")
            ELSE IF Len(body) < 4 THEN result = Err("UnexpectedEOF")
            ELSE IF hex >= 55296 /\ hex <= 57343
            THEN result = Err("InvalidEscapeSequence")
            ELSE result = Ok(<<hex>> \o SubSeq(body, 5, Len(body)))

\* '8' has been unescaped to the character U+F0DA and '8'
C16_Witness ==
    /\ pc = "unescaped"
    /\ op.name = "hex"
    /\ value.s = <<70, 48, 100, 65, 56>>
    /\ result.st = "ok"
    /\ result.value = <<61658, 56>>

\* {a:1}  {'a':1}  {"a" 1}  {"a"::1}  {"a",1}  {"a":1:"a":1}  {"a":1]  {"a":null
MalformedMembers ==
    {BareKeyText, SingleQuotedKeyText, MissingColonText, DoubleColonText,
     CommaForColonText, ColonForCommaText, BracketForBraceText, UnclosedObjectText,
     MemberA \o <<One>>}

C17_Examples ==
    pc = "done" =>
        /\ source \in MalformedMembers => result.st = "err"
        /\ source = MemberA \o <<One, RBrace>>
              => result = Ok(Object(MapInsert(EmptyMap, KeyA, NumberInt(FALSE, <<1>>))))
        /\ source = TwoMembersText => result = Ok(Object(MapInsert(EmptyMap, KeyA, Null)))

\* the steps of parse_object where a key, the colon, and the comma or closing
\* brace are due: any other byte there, and the end of the input, fail the parse
C17_Member ==
    LET b == Peek(FirstNonWhitespace(index))
        failed == pc' = "done" /\ result'.st = "err"
        inObject == pc = "return" /\ Len(stack) > 0 /\ Top.kind = "object"
    IN  /\ (pc = "object_loop" /\ b \notin {Quote, RBrace, Comma}) => failed
        /\ (inObject /\ Top.phase = "key" /\ b # Colon) => failed
        /\ (inObject /\ Top.phase = "value" /\ b \notin {Comma, RBrace}) => failed

\* C17: every object member is a quoted key, a colon and a value, followed by a
\* comma or the closing brace: a bare or single-quoted key, a missing or double
\* colon, a comma for the colon, a colon for the comma, and ] or the end of the
\* input for the closing brace each fail the parse.
C17_MemberShape == []C17_Examples /\ [][C17_Member]_vars

\* {"a",1} has been rejected at the comma
C17_Witness ==
    /\ pc = "done"
    /\ source = CommaForColonText
    /\ result = ErrAt("InvalidCharacter", 4)

\* a terminator byte lies at or after the first byte of the literal
HasTerminator ==
    \E k \in start..(Len(source) - 1) : IsTerminator(source[k + 1])

\* the index of the first terminator byte at or after the literal's first byte
TerminatorIndex ==
    CHOOSE k \in start..(Len(source) - 1) :
        /\ IsTerminator(source[k + 1])
        /\ \A j \in start..(k - 1) : ~IsTerminator(source[j + 1])

\* parse_number returns Ok on a literal ended by a terminator: the cursor is at
\* the terminator, the literal starts where its first byte is, and the captured
\* substring runs from there up to the terminator
C18_NumberReturn ==
    (pc = "number_end" /\ pc' = "return" /\ HasTerminator) =>
        /\ index' = TerminatorIndex
        /\ start < TerminatorIndex
        /\ source[start + 1] \in {Plus, Minus} \/ IsDigit(source[start + 1])
        /\ start = 0 \/ source[start] \in {LBracket, Comma, Colon}
                     \/ IsAsciiWhitespace(source[start])
        /\ Captured = Slice(source, start, TerminatorIndex)
        /\ ret' = Convert(Captured).value

\* the enclosing parse_array or parse_object takes over at the byte the number
\* left the cursor on: whitespace is skipped, a comma is consumed and the next
\* element or member is due, the closing delimiter is consumed and the
\* container, with the number in it, is returned
C18_Enclosing ==
    (pc = "return" /\ ret.t \in {"Int", "Float"} /\ Len(stack) > 0) =>
        LET b == source[index + 1]
            closed == IF Top.kind = "array" THEN Array(Append(Top.items, ret))
                      ELSE Object(MapInsert(Top.map, Top.key, ret))
        IN  /\ index < Len(source)
            /\ IsTerminator(b)
            /\ b = Comma =>
                  /\ index' = index + 1
                  /\ pc' = (IF Top.kind = "array" THEN "array_loop" ELSE "object_loop")
            /\ (b = RBracket /\ Top.kind = "array") \/ (b = RBrace /\ Top.kind = "object")
                  => (index' = index + 1 /\ pc' = "return" /\ ret' = closed)
            /\ IsAsciiWhitespace(b) => index' > index

C18_Step == C18_NumberReturn /\ C18_Enclosing

C18_Examples ==
    pc = "done" =>
        /\ source = ArrayOneTwoText
              => result = Ok(Array(<<NumberInt(FALSE, <<1>>), NumberInt(FALSE, <<2>>)>>))
        /\ source = <<LBracket, One, RBracket>>
              => result = Ok(Array(<<NumberInt(FALSE, <<1>>)>>))

\* C18: when parse_number succeeds on a literal ended by a terminator, the cursor
\* on return is at the terminator, the captured substring is the literal up to
\* the terminator, and the enclosing array or object parser consumes that
\* terminator: [1,2] has two elements and [1] closes.
C18_TerminatorLeft == []C18_Examples /\ [][C18_Step]_vars

\* in [1,2] parse_number has returned 1 with the cursor on the comma
C18_Witness ==
    /\ source = ArrayOneTwoText
    /\ pc = "return"
    /\ ret = NumberInt(FALSE, <<1>>)
    /\ start = 1
    /\ end = 2
    /\ index = 2

\* the cursor stays within the input length plus one; the slices parse_number,
\* parse_string and matches take lie within the input; an index carried by an
\* error is at most the input length; a successful parse ends at the input length
C19_Bounds ==
    /\ index <= Len(source) + 1
    /\ pc = "number_end" => (start <= end /\ end <= Len(source))
    /\ (pc = "string_loop" /\ Peek(index) = Quote)
           => (start <= index /\ index <= Len(source))
    /\ pc \in {"parse_null", "parse_boolean"} => index <= Len(source)
    /\ (pc = "done" /\ result.st = "err" /\ "at" \in DOMAIN result)
           => result.at <= Len(source)
    /\ (pc = "done" /\ result.st = "ok") => index = Len(source)

\* the cursor goes back only in the rewind of parse_number, and by one
C19_Monotonic ==
    index' < index => (pc = "number_rewind" /\ index' = index - 1)

\* C19: throughout from_str the cursor never exceeds the input length plus one
\* and decreases only by the single-step rewind of parse_number; every slice
\* taken satisfies start <= end <= input length; every index an error carries is
\* at most the input length; a successful parse ends with the cursor at the
\* input length.
C19_CursorInvariant == []C19_Bounds /\ [][C19_Monotonic]_vars

\* a string ending in a backslash has left the cursor one past the input length
C19_Witness ==
    /\ pc = "done"
    /\ index = Len(source) + 1
    /\ source = <<Quote, LowerA, Backslash>>
    /\ result = ErrAt("UnexpectedEOFWhileParsingString", 1)

====
